---- MODULE Spec2Model ----
(***************************************************************************)
(* Model of the domain checker's batch endpoint (check-domains/route.ts): *)
(* request validation, the rate-limited batch loop, the DNS/HTTP fallback  *)
(* cascade for one (domain, tld) pair, and the server-sent event stream.   *)
(***************************************************************************)
EXTENDS Integers, Sequences, FiniteSets, TLC

\* ------------------------------------------------------------------ bounds
MaxDomains == 3
MaxTlds == 2
MaxChecks == 4
MaxCascadeChecks == 2
MaxExportResults == 3

\* ------------------------------------------------------- request values
\* A JSON array element: a string (kept as its sequence of characters) or a
\* value that is not a string (a JSON number).
Str(cs) == [type |-> "string", chars |-> cs]
NotAString == [type |-> "number", chars |-> <<>>]
IsString(v) == v.type = "string"

DomainElems == { Str(<<"a">>), Str(<<" ", "b", " ">>), NotAString }
TldElems == { Str(<<".", "com">>), Str(<<"io">>) }

BoundedSeq(S, n) == UNION { [1..m -> S] : m \in 0..n }

\* A request field: an array with items, or missing / not an array.
Arr(items) == [isArray |-> TRUE, items |-> items]
Missing == [isArray |-> FALSE, items |-> <<>>]

\* String.prototype.trim on a character sequence.
RECURSIVE TrimLeft(_)
TrimLeft(cs) ==
  IF cs # <<>> /\ Head(cs) = " " THEN TrimLeft(Tail(cs)) ELSE cs
RECURSIVE TrimRight(_)
TrimRight(cs) ==
  IF cs # <<>> /\ cs[Len(cs)] = " " THEN TrimRight(SubSeq(cs, 1, Len(cs) - 1)) ELSE cs
Trim(cs) == TrimRight(TrimLeft(cs))

\* ----------------------------------------------------- probe outcomes
\* CheckResult of one stage.  An error message is represented by the errno
\* token it carries ("EREFUSED" stands for a message with none of the tokens
\* the cascade looks for); a success has no error, read as "" by the cascade.
Ok == [success |-> TRUE, error |-> ""]
Fail(e) == [success |-> FALSE, error |-> e]
None == [success |-> FALSE, error |-> "<not run>"]

DnsErrors == { "ETIMEOUT", "ESERVFAIL", "ECONNREFUSED", "EAI_AGAIN",
               "ENOTFOUND", "ENODATA", "EREFUSED" }
HttpErrors == { "ECONNREFUSED", "ENOTFOUND", "ENETUNREACH", "ETIMEOUT" }
DnsOutcomes == {Ok} \cup { Fail(e) : e \in DnsErrors }
HttpOutcomes == {Ok} \cup { Fail(e) : e \in HttpErrors }

Includes(msg, token) == msg = token

\* ----------------------------------------------------------- results
Absent == "<absent>"
Result(d, t, s, e) == [domain |-> d, tld |-> t, status |-> s, error |-> e]

VARIABLES
  domains, tlds,          \* the request body's two fields
  pc,                     \* where the handler is suspended
  di, ti,                 \* position of the two for-of loops
  results, checksCompleted,
  events, stream,         \* chunks enqueued on the stream; the stream's state
  response,               \* what POST returned
  systemResult, googleResult, cloudflareResult, httpResult,
  inFlight,               \* the network operations issued and not yet returned
  issued,                 \* the operations the current invocation has issued, in order
  suspensions,            \* how many rate-limit delays were started
  exportBody, csvData, exportResponse   \* the export endpoint: body, rows, reply

vars == << domains, tlds, pc, di, ti, results, checksCompleted, events, stream,
           response, systemResult, googleResult, cloudflareResult, httpResult,
           inFlight, issued, suspensions, exportBody, csvData, exportResponse >>

reqVars == << domains, tlds >>
localVars == << systemResult, googleResult, cloudflareResult, httpResult, issued >>
exportVars == << exportBody, csvData, exportResponse >>

totalChecks == Len(domains.items) * Len(tlds.items)

\* No batch has been started.
BatchIdle ==
  /\ pc = "idle"
  /\ di = 0 /\ ti = 0
  /\ results = <<>> /\ checksCompleted = 0
  /\ events = <<>> /\ stream = "none"
  /\ response = "none"
  /\ systemResult = None /\ googleResult = None
  /\ cloudflareResult = None /\ httpResult = None
  /\ inFlight = {} /\ issued = <<>> /\ suspensions = 0

\* No export has been requested.
ExportIdle ==
  /\ csvData = <<>>
  /\ exportResponse = "none"

Init ==
  /\ domains \in {Missing} \cup { Arr(s) : s \in BoundedSeq(DomainElems, MaxDomains) }
  /\ tlds \in {Missing} \cup { Arr(s) : s \in BoundedSeq(TldElems, MaxTlds) }
  /\ Len(domains.items) * Len(tlds.items) <= MaxChecks
  /\ BatchIdle
  /\ exportBody = Missing
  /\ ExportIdle

\* ------------------------------------------------------------ validation
DomainsInvalid(d) == ~d.isArray \/ Len(d.items) = 0
\* Mutation: the TLD check forgets the empty list.
TldsInvalid_OnlyMissing(t) == ~t.isArray
TldsInvalid(t) == ~t.isArray \/ Len(t.items) = 0

\* ------------------------------------------------------------ the stream
ProgressEvent(p) == [type |-> "progress", progress |-> p, results |-> <<>>]
\* Mutation: the complete event is sent without the results.
CompleteEvent_NoResults(rs) == [type |-> "complete", progress |-> <<0, 1>>, results |-> <<>>]
CompleteEvent(rs) == [type |-> "complete", progress |-> <<0, 1>>, results |-> rs]
ErrorEvent == [type |-> "error", progress |-> <<0, 1>>, results |-> <<>>]

\* controller.enqueue and controller.close throw unless the stream is readable.
CanEnqueue(st) == st = "readable"

\* (checksCompleted / totalChecks) * 100, kept as the exact fraction
\* <<numerator, denominator>>.
\* Mutations: a zero-based count; a percentage rounded down to an integer.
ProgressValue_ZeroBased(k, total) == << (k - 1) * 100, total >>
ProgressValue_Rounded(k, total) == << (k * 100) \div total, 1 >>
ProgressValue(k, total) == << k * 100, total >>

\* Mutations: a catch block that closes without reporting; a catch block
\* that reports and leaves the stream open.
Catch_Silent(evs, st) ==
  /\ events' = evs
  /\ stream' = IF CanEnqueue(st) THEN "closed" ELSE st
  /\ pc' = "done"
Catch_NoClose(evs, st) ==
  /\ events' = IF CanEnqueue(st) THEN Append(evs, ErrorEvent) ELSE evs
  /\ stream' = st
  /\ pc' = "done"
\* The catch block of start(): enqueue the error event and close; when the
\* enqueue itself throws, start() rejects and nothing more is written.
Catch(evs, st) ==
  /\ events' = IF CanEnqueue(st) THEN Append(evs, ErrorEvent) ELSE evs
  /\ stream' = IF CanEnqueue(st) THEN "closed" ELSE st
  /\ pc' = "done"

\* Mutation: results that ended in Error are left out of the complete event.
NotError(r) == r.status # "Error"
Complete_DropErrors(evs, st, rs) ==
  IF CanEnqueue(st)
  THEN /\ events' = Append(evs, CompleteEvent(SelectSeq(rs, NotError)))
       /\ stream' = "closed"
       /\ pc' = "done"
  ELSE Catch(evs, st)
\* The tail of the try block of start(): the complete event, then close.
Complete(evs, st, rs) ==
  IF CanEnqueue(st)
  THEN /\ events' = Append(evs, CompleteEvent(rs))
       /\ stream' = "closed"
       /\ pc' = "done"
  ELSE Catch(evs, st)

\* ------------------------------------------------------ the batch loop
\* Mutation: the system and Google lookups are issued together.
StartPair_Parallel(d, t, evs, st) ==
  /\ di' = d /\ ti' = t
  /\ systemResult' = None /\ googleResult' = None
  /\ cloudflareResult' = None /\ httpResult' = None
  /\ UNCHANGED suspensions
  /\ IF IsString(domains.items[d]) /\ IsString(tlds.items[t])
     THEN /\ pc' = "system"
          /\ inFlight' = inFlight \cup {"system", "google"}
          /\ issued' = << "system" >>
          /\ events' = evs
          /\ stream' = st
     ELSE Catch(evs, st) /\ issued' = <<>> /\ UNCHANGED inFlight
\* Entering the loop body for pair (d, t): domain.trim() and tld.startsWith
\* throw on a non-string; otherwise the system DNS query is issued.
StartPair(d, t, evs, st) ==
  /\ di' = d /\ ti' = t
  /\ systemResult' = None /\ googleResult' = None
  /\ cloudflareResult' = None /\ httpResult' = None
  /\ UNCHANGED suspensions
  /\ IF IsString(domains.items[d]) /\ IsString(tlds.items[t])
     THEN /\ pc' = "system"
          /\ inFlight' = inFlight \cup {"system"}
          /\ issued' = << "system" >>
          /\ events' = evs
          /\ stream' = st
     ELSE Catch(evs, st) /\ issued' = <<>> /\ UNCHANGED inFlight

\* Mutation: the loop also waits after the last pair.
ShouldDelay_Always(k, total) == k <= total
\* await setTimeout(CHECK_DELAY) only while pairs remain.
ShouldDelay(k, total) == k < total

LastPair == di = Len(domains.items) /\ ti = Len(tlds.items)

\* checkDomain returned r: push, count, report progress, then either wait
\* for the rate-limit delay or go on with the loops; when the loops are
\* exhausted the results are sent.
ReturnResult(r) ==
  LET rs == Append(results, r)
      k == checksCompleted + 1
      evs == Append(events, ProgressEvent(ProgressValue(k, totalChecks)))
  IN /\ results' = rs
     /\ checksCompleted' = k
     /\ UNCHANGED << di, ti >>
     /\ IF ~CanEnqueue(stream)
        THEN Catch(events, stream) /\ UNCHANGED suspensions
        ELSE IF ShouldDelay(k, totalChecks)
        THEN /\ events' = evs
             /\ pc' = "delay"
             /\ suspensions' = suspensions + 1
             /\ UNCHANGED stream
        ELSE IF LastPair
        THEN Complete(evs, stream, rs) /\ UNCHANGED suspensions
        ELSE /\ events' = evs
             /\ pc' = "next"
             /\ UNCHANGED << stream, suspensions >>

CurDomain == Trim(domains.items[di].chars)
CurTld == tlds.items[ti].chars

Taken == Result(CurDomain, CurTld, "Taken", Absent)
Available == Result(CurDomain, CurTld, "Available", Absent)
\* Mutation: an Error result without its cause.
Error_NoCause(msg) == Result(CurDomain, CurTld, "Error", Absent)
Error(msg) == Result(CurDomain, CurTld, "Error", msg)

\* ------------------------------------------------- the cascade's tests
\* Mutation: one timeout is enough to escalate.
IsTimeout_Either(systemError, googleError) ==
  Includes(systemError, "ETIMEOUT") \/ Includes(googleError, "ETIMEOUT")
IsTimeout(systemError, googleError) ==
  Includes(systemError, "ETIMEOUT") /\ Includes(googleError, "ETIMEOUT")
IsServerError(systemError, googleError) ==
  Includes(systemError, "ESERVFAIL") /\ Includes(googleError, "ESERVFAIL")
IsConnError(systemError) ==
  Includes(systemError, "ECONNREFUSED") \/ Includes(systemError, "EAI_AGAIN")
GoogleNotFound(googleError) ==
  Includes(googleError, "ENOTFOUND") \/ Includes(googleError, "ENODATA")
\* Mutation: any Cloudflare failure counts as not found.
CloudflareNotFound_AnyFailure(cloudflareError) == TRUE
CloudflareNotFound(cloudflareError) ==
  Includes(cloudflareError, "ENOTFOUND") \/ Includes(cloudflareError, "ENODATA")
\* Mutation: a name-resolution failure of the probe is not taken as "no server".
HttpConnRefused_NoEnotfound(httpError) ==
  \/ Includes(httpError, "ECONNREFUSED")
  \/ Includes(httpError, "ENETUNREACH")
HttpConnRefused(httpError) ==
  \/ Includes(httpError, "ECONNREFUSED")
  \/ Includes(httpError, "ENOTFOUND")
  \/ Includes(httpError, "ENETUNREACH")
\* Mutation: the cause of a failed Cloudflare lookup always blames the connection.
ErrorMsg_AlwaysConnection(isTimeout, isServerError) ==
  "DNS connection error - try again later"
ErrorMsg(isTimeout, isServerError) ==
  IF isTimeout THEN "DNS timeout - try again later"
  ELSE IF isServerError THEN "DNS server error - try again later"
  ELSE "DNS connection error - try again later"

CfHttpConnRefused(httpError) ==
  \/ Includes(httpError, "ECONNREFUSED")
  \/ Includes(httpError, "ENOTFOUND")
  \/ Includes(httpError, "ENETUNREACH")

\* Mutation: any failure of the probe counts as "no server".
HttpVerdict_AnyFailureAvailable(h) ==
  IF h.success THEN Taken ELSE Available
\* The verdict once the HTTP probe that follows Google's not-found returned.
HttpVerdict(h) ==
  IF h.success THEN Taken
  ELSE IF HttpConnRefused(h.error) THEN Available
  ELSE Error("HTTP timeout - try again later")

\* Mutation: a response to the probe does not override the DNS answer.
CloudflareHttpVerdict_NoOverride(h) ==
  IF CfHttpConnRefused(h.error) THEN Available
  ELSE Error("HTTP timeout - try again later")
\* The verdict once the HTTP probe that follows Cloudflare's not-found returned.
CloudflareHttpVerdict(h) ==
  IF h.success THEN Taken
  ELSE IF CfHttpConnRefused(h.error) THEN Available
  ELSE Error("HTTP timeout - try again later")

\* --------------------------------------------------------------- actions
\* POST up to its first suspension: validate, create the stream, run start()
\* until the first DNS query is pending.
POST ==
  /\ pc = "idle"
  /\ UNCHANGED << reqVars, exportVars >>
  /\ IF DomainsInvalid(domains) \/ TldsInvalid(tlds)
     THEN /\ response' = "400"
          /\ pc' = "rejected"
          /\ UNCHANGED << di, ti, results, checksCompleted, events, stream, localVars,
                          inFlight, suspensions >>
     ELSE /\ response' = "stream"
          /\ results' = <<>>
          /\ checksCompleted' = 0
          /\ IF ~domains.isArray \/ ~tlds.isArray
             THEN Catch(<<>>, "readable") /\ UNCHANGED << di, ti, localVars, inFlight, suspensions >>
             ELSE IF totalChecks = 0
             THEN Complete(<<>>, "readable", <<>>) /\ UNCHANGED << di, ti, localVars, inFlight, suspensions >>
             ELSE StartPair(1, 1, <<>>, "readable")

\* The locals of the running checkDomainWithFallbacks invocation.
Store(s, g, c, h) ==
  /\ systemResult' = s
  /\ googleResult' = g
  /\ cloudflareResult' = c
  /\ httpResult' = h

\* The invocation returns: its frame is dropped, or (keep) its locals stay
\* readable until the next invocation starts.
Frame(keep, s, g, c, h) ==
  IF keep
  THEN Store(s, g, c, h) /\ UNCHANGED issued
  ELSE Store(None, None, None, None) /\ issued' = <<>>

Suspended == UNCHANGED << di, ti, results, checksCompleted, events, stream, suspensions >>

\* The awaited operation returned; the cascade may issue the next one.
Settle(stage) == inFlight' = inFlight \ {stage}
\* Which function a stage calls: both HTTP stages call tryHttpCheck.
StageKind(stage) == IF stage \in {"http1", "http2"} THEN "http" ELSE stage
Proceed(stage, next) ==
  /\ inFlight' = (inFlight \ {stage}) \cup {next}
  /\ issued' = Append(issued, StageKind(next))

SystemReturns(o, keep) ==
  /\ pc = "system"
  /\ UNCHANGED << reqVars, exportVars, response >>
  /\ IF o.success
     THEN /\ ReturnResult(Taken)
          /\ Settle("system")
          /\ Frame(keep, o, googleResult, cloudflareResult, httpResult)
     ELSE /\ pc' = "google"
          /\ Suspended
          /\ Proceed("system", "google")
          /\ Store(o, googleResult, cloudflareResult, httpResult)

\* Mutation: Google's success does not end the cascade.
GoogleReturns_NoEarlyReturn(o, keep) ==
  /\ pc = "google"
  /\ UNCHANGED << reqVars, exportVars, response >>
  /\ IF GoogleNotFound(o.error)
     THEN /\ pc' = "http1"
          /\ Suspended
          /\ Proceed("google", "http1")
          /\ Store(systemResult, o, cloudflareResult, httpResult)
     ELSE IF \/ IsTimeout(systemResult.error, o.error)
             \/ IsServerError(systemResult.error, o.error)
             \/ IsConnError(systemResult.error)
     THEN /\ pc' = "cloudflare"
          /\ Suspended
          /\ Proceed("google", "cloudflare")
          /\ Store(systemResult, o, cloudflareResult, httpResult)
     ELSE /\ ReturnResult(Error("DNS lookup failed"))
          /\ Settle("google")
          /\ Frame(keep, systemResult, o, cloudflareResult, httpResult)
GoogleReturns(o, keep) ==
  /\ pc = "google"
  /\ UNCHANGED << reqVars, exportVars, response >>
  /\ IF o.success
     THEN /\ ReturnResult(Taken)
          /\ Settle("google")
          /\ Frame(keep, systemResult, o, cloudflareResult, httpResult)
     ELSE IF GoogleNotFound(o.error)
     THEN /\ pc' = "http1"
          /\ Suspended
          /\ Proceed("google", "http1")
          /\ Store(systemResult, o, cloudflareResult, httpResult)
     ELSE IF \/ IsTimeout(systemResult.error, o.error)
             \/ IsServerError(systemResult.error, o.error)
             \/ IsConnError(systemResult.error)
     THEN /\ pc' = "cloudflare"
          /\ Suspended
          /\ Proceed("google", "cloudflare")
          /\ Store(systemResult, o, cloudflareResult, httpResult)
     ELSE /\ ReturnResult(Error("DNS lookup failed"))
          /\ Settle("google")
          /\ Frame(keep, systemResult, o, cloudflareResult, httpResult)

HttpAfterGoogleReturns(o, keep) ==
  /\ pc = "http1"
  /\ UNCHANGED << reqVars, exportVars, response >>
  /\ ReturnResult(HttpVerdict(o))
  /\ Settle("http1")
  /\ Frame(keep, systemResult, googleResult, cloudflareResult, o)

CloudflareReturns(o, keep) ==
  /\ pc = "cloudflare"
  /\ UNCHANGED << reqVars, exportVars, response >>
  /\ IF o.success
     THEN /\ ReturnResult(Taken)
          /\ Settle("cloudflare")
          /\ Frame(keep, systemResult, googleResult, o, httpResult)
     ELSE IF CloudflareNotFound(o.error)
     THEN /\ pc' = "http2"
          /\ Suspended
          /\ Proceed("cloudflare", "http2")
          /\ Store(systemResult, googleResult, o, httpResult)
     ELSE /\ ReturnResult(Error(ErrorMsg(
               IsTimeout(systemResult.error, googleResult.error),
               IsServerError(systemResult.error, googleResult.error))))
          /\ Settle("cloudflare")
          /\ Frame(keep, systemResult, googleResult, o, httpResult)

HttpAfterCloudflareReturns(o, keep) ==
  /\ pc = "http2"
  /\ UNCHANGED << reqVars, exportVars, response >>
  /\ ReturnResult(CloudflareHttpVerdict(o))
  /\ Settle("http2")
  /\ Frame(keep, systemResult, googleResult, cloudflareResult, o)

\* Mutation: the loops are nested the other way round (TLD-major).
DelayExpires_TldMajor ==
  /\ pc \in {"delay", "next"}
  /\ UNCHANGED << reqVars, exportVars, response, results, checksCompleted >>
  /\ IF LastPair
     THEN Complete(events, stream, results) /\ UNCHANGED << di, ti, localVars, inFlight, suspensions >>
     ELSE IF di < Len(domains.items)
     THEN StartPair(di + 1, ti, events, stream)
     ELSE StartPair(1, ti + 1, events, stream)
\* The rate-limit timer fires (or no delay was due): the loops advance to
\* the next pair, or end.
DelayExpires ==
  /\ pc \in {"delay", "next"}
  /\ UNCHANGED << reqVars, exportVars, response, results, checksCompleted >>
  /\ IF LastPair
     THEN Complete(events, stream, results) /\ UNCHANGED << di, ti, localVars, inFlight, suspensions >>
     ELSE IF ti < Len(tlds.items)
     THEN StartPair(di, ti + 1, events, stream)
     ELSE StartPair(di + 1, 1, events, stream)

\* The reader goes away (client disconnect): the stream is cancelled.
Cancel ==
  /\ pc \in {"system", "google", "cloudflare", "http1", "http2", "delay"}
  /\ stream = "readable"
  /\ stream' = "cancelled"
  /\ UNCHANGED << reqVars, exportVars, pc, di, ti, results, checksCompleted, events,
                  response, localVars, inFlight, suspensions >>

\* --------------------------------------------------- the export endpoint
\* The body's results: domain, tld and status are strings.
ExportDomains == {"a", "b"}
\* The TLDs that occur in exports, listed in the order Array.sort() gives.
ExportTldOrder == << ".com", ".io" >>
ExportStatuses == {"Available", "Taken", "Error"}
ExportEntries ==
  [domain : ExportDomains,
   tld : { ExportTldOrder[i] : i \in 1..Len(ExportTldOrder) },
   status : ExportStatuses]

DomainName == "Domain Name"
Blank == ""

\* !results || !Array.isArray(results) || results.length === 0
ExportInvalid(b) == ~b.isArray \/ Len(b.items) = 0

\* Array.from(new Set(results.map(r => r.tld))).sort()
UniqueSortedTlds(rs) ==
  LET Occurs(t) == \E k \in 1..Len(rs) : rs[k].tld = t
  IN SelectSeq(ExportTldOrder, Occurs)

\* { 'Domain Name': domain, ...Object.fromEntries(tlds.map(tld => [tld, ''])) }
NewRow(domain, cols) ==
  [c \in {DomainName} \cup { cols[i] : i \in 1..Len(cols) } |->
      IF c = DomainName THEN domain ELSE Blank]

HasRow(rows, domain) == \E i \in 1..Len(rows) : rows[i][DomainName] = domain

\* Mutation: the status is written only when the domain's row is created.
AddResult_OnlyNewRows(rows, r, cols) ==
  IF HasRow(rows, r.domain)
  THEN rows
  ELSE Append(rows, [NewRow(r.domain, cols) EXCEPT ![r.tld] = r.status])
\* One turn of results.forEach: create the domain's row if there is none,
\* then write the status into the TLD's cell.
AddResult(rows, r, cols) ==
  LET withRow == IF HasRow(rows, r.domain)
                 THEN rows
                 ELSE Append(rows, NewRow(r.domain, cols))
  IN [i \in 1..Len(withRow) |->
        IF withRow[i][DomainName] = r.domain
        THEN [withRow[i] EXCEPT ![r.tld] = r.status]
        ELSE withRow[i]]

\* The rows after the first k results, in the Map's insertion order.
RECURSIVE BuildRows(_, _, _)
BuildRows(rs, k, cols) ==
  IF k = 0 THEN <<>> ELSE AddResult(BuildRows(rs, k - 1, cols), rs[k], cols)

batchVars == << reqVars, pc, di, ti, results, checksCompleted, events, stream,
                response, localVars, inFlight, suspensions >>

\* The export handler, up to the rows it hands to the CSV writer.
ExportPOST ==
  /\ exportResponse = "none"
  /\ IF ExportInvalid(exportBody)
     THEN /\ exportResponse' = "400"
          /\ UNCHANGED csvData
     ELSE /\ csvData' = BuildRows(exportBody.items, Len(exportBody.items),
                                  UniqueSortedTlds(exportBody.items))
          /\ exportResponse' = "csv"
  /\ UNCHANGED << exportBody, batchVars >>

InitExport ==
  /\ domains = Missing /\ tlds = Missing
  /\ BatchIdle
  /\ exportBody \in {Missing} \cup
                    { Arr(s) : s \in BoundedSeq(ExportEntries, MaxExportResults) }
  /\ ExportIdle

NextExport == ExportPOST

SpecExport == InitExport /\ [][NextExport]_vars

\* The client's view of a result collection: per (domain, tld) the entry
\* set last.
getResultsByDomain(rs) ==
  { << rs[k].domain, rs[k].tld, rs[k].status >> :
      k \in { k \in 1..Len(rs) :
                \A j \in (k + 1)..Len(rs) :
                    ~(rs[j].domain = rs[k].domain /\ rs[j].tld = rs[k].tld) } }

Stages(keep) ==
  \/ \E o \in DnsOutcomes : SystemReturns(o, keep)
  \/ \E o \in DnsOutcomes : GoogleReturns(o, keep)
  \/ \E o \in HttpOutcomes : HttpAfterGoogleReturns(o, keep)
  \/ \E o \in DnsOutcomes : CloudflareReturns(o, keep)
  \/ \E o \in HttpOutcomes : HttpAfterCloudflareReturns(o, keep)

\* The batch: every request within the bounds.
Next ==
  \/ POST
  \/ Stages(FALSE)
  \/ DelayExpires
  \/ Cancel

Spec == Init /\ [][Next]_vars

\* The cascade under observation: short batches, and the locals of the last
\* invocation stay readable after it returned.
InitCascade == Init /\ totalChecks <= MaxCascadeChecks

NextCascade ==
  \/ POST
  \/ Stages(TRUE)
  \/ DelayExpires
  \/ Cancel

SpecCascade == InitCascade /\ [][NextCascade]_vars

\* =================================================================== claims
D == Len(domains.items)
T == Len(tlds.items)
PairAt(i, j) == [domain |-> Trim(domains.items[i].chars), tld |-> tlds.items[j].chars]
Positions == (1..D) \X (1..T)
Occurrences(rs, p) ==
  Cardinality({ k \in 1..Len(rs) : rs[k].domain = p.domain /\ rs[k].tld = p.tld })
Requested(p) == Cardinality({ q \in Positions : PairAt(q[1], q[2]) = p })
EventsOf(type) == { k \in 1..Len(events) : events[k].type = type }
HasComplete == EventsOf("complete") # {}
HasError == EventsOf("error") # {}
TerminalCount == Cardinality(EventsOf("complete") \cup EventsOf("error"))
IsProgress(e) == e.type = "progress"
ProgressValues == SelectSeq(events, IsProgress)
Num(e) == e.progress[1]
Den(e) == e.progress[2]
IsHundred(e) == Num(e) = 100 * Den(e)
IsWhole(e) == Num(e) % Den(e) = 0
HasNonString ==
  \/ \E i \in 1..D : ~IsString(domains.items[i])
  \/ \E j \in 1..T : ~IsString(tlds.items[j])
DistinctPairs == \A p, q \in Positions : PairAt(p[1], p[2]) = PairAt(q[1], q[2]) => p = q

\* C1 as stated: the collection of the complete event has D*T entries and
\* every requested (domain, tld) pair appears in it exactly once.
C1_EveryPairExactlyOnce ==
  \A k \in EventsOf("complete") :
    /\ Len(events[k].results) = D * T
    /\ \A q \in Positions : Occurrences(events[k].results, PairAt(q[1], q[2])) = 1

\* C1 amended: the collection of the complete event has D*T entries and every
\* requested pair appears in it as often as the request lists it, which is
\* exactly once when the request's pairs are pairwise distinct.
C1_EveryPairAsOftenAsRequested ==
  \A k \in EventsOf("complete") :
    /\ Len(events[k].results) = D * T
    /\ \A q \in Positions :
         /\ Occurrences(events[k].results, PairAt(q[1], q[2])) = Requested(PairAt(q[1], q[2]))
         /\ DistinctPairs => Occurrences(events[k].results, PairAt(q[1], q[2])) = 1

C1_Witness ==
  /\ HasComplete
  /\ D = 2 /\ T = 2 /\ DistinctPairs
  /\ \E k \in 1..Len(results) : results[k].status = "Error"
  /\ \E k \in 1..Len(results) : results[k].status = "Taken"

\* C2: when resolving a pair throws, the batch still ends with a complete
\* event that carries all D*T results.
C2_ThrowDoesNotAbortBatch ==
  (HasNonString /\ pc = "done" /\ stream # "cancelled") =>
    \E k \in EventsOf("complete") : Len(events[k].results) = D * T

\* C3 as stated: at most one terminal event at any time, and exactly one once
\* start() has finished, in every execution.
C3_ExactlyOneTerminal ==
  /\ TerminalCount <= 1
  /\ pc = "done" => TerminalCount = 1

\* C3 amended: at most one terminal event at any time; once start() has
\* finished there is exactly one unless the reader cancelled the stream
\* before it could be written, and then there is none.
C3_OneTerminalUnlessCancelled ==
  /\ TerminalCount <= 1
  /\ pc = "done" => stream \in {"closed", "cancelled"}
  /\ (pc = "done" /\ stream = "closed") => TerminalCount = 1
  /\ stream = "cancelled" => TerminalCount = 0

C3_Witness ==
  /\ pc = "done" /\ stream = "closed"
  /\ HasError
  /\ Len(ProgressValues) = 1

\* C4: progress values are non-decreasing and within 0..100; a value is 100
\* exactly at the progress event of the last pair, so 100 is never emitted
\* before all D*T results exist and is emitted exactly once by a batch that
\* completes.
C4_ProgressMonotoneTo100 ==
  LET P == ProgressValues IN
  /\ \A i \in 1..Len(P) : Den(P[i]) > 0 /\ 0 <= Num(P[i]) /\ Num(P[i]) <= 100 * Den(P[i])
  /\ \A i, j \in 1..Len(P) : i < j => Num(P[i]) * Den(P[j]) <= Num(P[j]) * Den(P[i])
  /\ \A i \in 1..Len(P) : IsHundred(P[i]) <=> i = D * T
  /\ (\E i \in 1..Len(P) : IsHundred(P[i])) => Len(results) = D * T
  /\ HasComplete => Cardinality({ i \in 1..Len(P) : IsHundred(P[i]) }) = 1

C4_Witness ==
  /\ HasComplete
  /\ D * T = 3
  /\ Len(ProgressValues) = 3
  /\ IsHundred(ProgressValues[3])

\* C5 as stated: every progress event carries a whole number.
C5_ProgressIsWhole ==
  \A k \in EventsOf("progress") : IsWhole(events[k])

\* C5 amended: the k-th progress event carries the unrounded quotient
\* k / total * 100 (a fraction in general), which is 100 for k = total.
C5_ProgressIsExactQuotient ==
  LET P == ProgressValues IN
  \A i \in 1..Len(P) :
    /\ Num(P[i]) * D * T = 100 * i * Den(P[i])
    /\ i = D * T => IsWhole(P[i]) /\ IsHundred(P[i])

C5_Witness ==
  /\ D * T = 3
  /\ Len(ProgressValues) = 3
  /\ ~IsWhole(ProgressValues[1])
  /\ IsWhole(ProgressValues[3])

\* C6: a request whose domain list or TLD list is missing or empty is
\* answered 400 and causes no query, no probe and no stream event.
C6_InvalidRequestRejected ==
  (~domains.isArray \/ D = 0 \/ ~tlds.isArray \/ T = 0) =>
    /\ pc \in {"idle", "rejected"}
    /\ pc = "rejected" => response = "400"
    /\ events = <<>> /\ stream = "none"
    /\ results = <<>> /\ checksCompleted = 0
    /\ systemResult = None /\ googleResult = None
    /\ cloudflareResult = None /\ httpResult = None

C6_Witness ==
  /\ pc = "rejected" /\ response = "400"
  /\ D >= 1 /\ tlds.isArray /\ T = 0

\* C7 as stated: whenever start() ended without a complete event (an
\* exception was raised), the stream ends with the error event and is closed.
C7_ExceptionBecomesErrorEvent ==
  (pc = "done" /\ ~HasComplete) =>
    /\ stream = "closed"
    /\ Len(events) >= 1
    /\ events[Len(events)].type = "error"

\* C7 amended: an exception raised while the stream is readable ends the
\* stream with the error event, closed, and without a complete event; an
\* exception raised because the reader cancelled the stream leaves no
\* terminal event, since the error event cannot be enqueued either.
C7_ExceptionBecomesErrorUnlessCancelled ==
  /\ (pc = "done" /\ ~HasComplete /\ stream # "cancelled") =>
       /\ stream = "closed"
       /\ Len(events) >= 1
       /\ events[Len(events)].type = "error"
  /\ (pc = "done" /\ stream = "cancelled") => ~HasComplete /\ ~HasError
  /\ HasError => ~HasComplete /\ pc = "done"

C7_Witness ==
  /\ pc = "done" /\ ~HasComplete /\ stream = "closed"
  /\ HasNonString
  /\ Len(events) = 2 /\ events[2].type = "error"

\* ------------------------------------------------- claims on the cascade
\* Under SpecCascade the locals of the last invocation stay readable, so a
\* state shows which stages ran, what they returned and the pushed result.
Ran(r) == r # None
Resolved ==
  /\ pc \in {"delay", "next", "done"}
  /\ Ran(systemResult)
  /\ results # <<>> /\ Len(results) = checksCompleted
LastResult == results[Len(results)]
DnsNotFound(r) == Ran(r) /\ ~r.success /\ r.error \in {"ENOTFOUND", "ENODATA"}
NoServer(r) ==
  Ran(r) /\ ~r.success /\ r.error \in {"ECONNREFUSED", "ENOTFOUND", "ENETUNREACH"}
ResolvedAs(status) ==
  /\ Resolved
  /\ LastResult.status = status
  /\ LastResult.domain = CurDomain /\ LastResult.tld = CurTld

\* C8: as soon as a consulted DNS stage (system, Google, Cloudflare) succeeds
\* the pair is resolved Taken, whatever the earlier stages returned, and no
\* further stage is consulted.
C8_DnsSuccessIsTaken ==
  /\ (Ran(systemResult) /\ systemResult.success) =>
       /\ ResolvedAs("Taken")
       /\ ~Ran(googleResult) /\ ~Ran(cloudflareResult) /\ ~Ran(httpResult)
  /\ (Ran(googleResult) /\ googleResult.success) =>
       /\ ResolvedAs("Taken")
       /\ ~Ran(cloudflareResult) /\ ~Ran(httpResult)
  /\ (Ran(cloudflareResult) /\ cloudflareResult.success) =>
       /\ ResolvedAs("Taken")
       /\ ~Ran(httpResult)

C8_Witness ==
  /\ Ran(googleResult) /\ googleResult.success
  /\ ~systemResult.success /\ systemResult.error = "ETIMEOUT"
  /\ ResolvedAs("Taken")

\* C9: when every consulted DNS stage reported not-found and the HTTP probe
\* failed with a no-server error, the pair is resolved Available.
C9_NotFoundAndNoServerIsAvailable ==
  ( /\ DnsNotFound(systemResult)
    /\ DnsNotFound(googleResult)
    /\ Ran(cloudflareResult) => DnsNotFound(cloudflareResult)
    /\ NoServer(httpResult) ) =>
    /\ ResolvedAs("Available")
    /\ LastResult.error = Absent

C9_Witness ==
  /\ DnsNotFound(systemResult) /\ systemResult.error = "ENODATA"
  /\ DnsNotFound(googleResult)
  /\ NoServer(httpResult) /\ httpResult.error = "ENOTFOUND"
  /\ ResolvedAs("Available")

\* C10: whenever the HTTP probe ran and got a response the pair is resolved
\* Taken, although the DNS stage before the probe (Google, or Cloudflare when
\* it was consulted) had reported not-found.
C10_HttpResponseIsTaken ==
  (Ran(httpResult) /\ httpResult.success) =>
    /\ ResolvedAs("Taken")
    /\ IF Ran(cloudflareResult)
       THEN DnsNotFound(cloudflareResult)
       ELSE DnsNotFound(googleResult)

C10_Witness ==
  /\ Ran(httpResult) /\ httpResult.success
  /\ DnsNotFound(cloudflareResult)
  /\ ~DnsNotFound(googleResult)
  /\ ResolvedAs("Taken")

\* The transient classes of a DNS failure and the cause that names each.
Failed(r) == Ran(r) /\ ~r.success
ClassOf(r) ==
  IF r.error = "ETIMEOUT" THEN "Timeout"
  ELSE IF r.error = "ESERVFAIL" THEN "ServerFailure"
  ELSE IF r.error \in {"ECONNREFUSED", "EAI_AGAIN"} THEN "ConnectionError"
  ELSE IF r.error \in {"ENOTFOUND", "ENODATA"} THEN "NotFound"
  ELSE "Unknown"
Transient(r) == Failed(r) /\ ClassOf(r) \in {"Timeout", "ServerFailure", "ConnectionError"}
CauseOf(class) ==
  IF class = "Timeout" THEN "DNS timeout - try again later"
  ELSE IF class = "ServerFailure" THEN "DNS server error - try again later"
  ELSE "DNS connection error - try again later"

\* C11: when system, Google and Cloudflare DNS all failed with the same
\* transient class, the pair is resolved Error, the cause names that class,
\* and the HTTP probe was not run.
C11_SameTransientClassIsNamedError ==
  ( /\ Transient(systemResult) /\ Transient(googleResult) /\ Transient(cloudflareResult)
    /\ ClassOf(systemResult) = ClassOf(googleResult)
    /\ ClassOf(googleResult) = ClassOf(cloudflareResult) ) =>
    /\ ResolvedAs("Error")
    /\ LastResult.error = CauseOf(ClassOf(systemResult))
    /\ ~Ran(httpResult)

C11_Witness ==
  /\ Transient(systemResult) /\ ClassOf(systemResult) = "ServerFailure"
  /\ Transient(googleResult) /\ ClassOf(googleResult) = "ServerFailure"
  /\ Transient(cloudflareResult) /\ ClassOf(cloudflareResult) = "ServerFailure"
  /\ ResolvedAs("Error")
  /\ LastResult.error = "DNS server error - try again later"

\* The position of the k-th pair of the domain-major cross product.
DomainIndex(k) == ((k - 1) \div T) + 1
TldIndex(k) == ((k - 1) % T) + 1
Pending == pc \in {"system", "google", "cloudflare", "http1", "http2"}
InOrder(rs) ==
  \A k \in 1..Len(rs) :
    /\ rs[k].domain = Trim(domains.items[DomainIndex(k)].chars)
    /\ rs[k].tld = tlds.items[TldIndex(k)].chars

\* C12: the result collection is in domain-major order: entry (i-1)*T + j is
\* the result of (trimmed d_i, t_j); results are appended in the order the
\* pairs are resolved, the pair under resolution being the next position.
C12_DomainMajorOrder ==
  /\ InOrder(results)
  /\ Len(results) = checksCompleted
  /\ Pending => (di - 1) * T + ti = Len(results) + 1
  /\ \A k \in EventsOf("complete") : InOrder(events[k].results)

C12_Witness ==
  /\ HasComplete
  /\ D = 2 /\ T = 2
  /\ Len(results) = 4
  /\ results[2].domain = <<"a">> /\ results[2].tld = <<"io">>
  /\ results[3].domain = <<"b">> /\ results[3].tld = <<".", "com">>

HasCause(r) == r.error # Absent /\ r.error # ""

\* C13: every result the resolver produced has a status among Available,
\* Taken and Error, and carries a non-empty cause exactly when it is Error.
C13_CauseIffError ==
  \A k \in 1..Len(results) :
    /\ results[k].status \in {"Available", "Taken", "Error"}
    /\ HasCause(results[k]) <=> results[k].status = "Error"

C13_Witness ==
  /\ Len(results) = 2
  /\ results[1].status = "Error" /\ HasCause(results[1])
  /\ results[2].status = "Available" /\ ~HasCause(results[2])
  /\ Resolved /\ NoServer(httpResult)

\* C15: whenever system DNS and Google DNS both failed with a transient
\* class (not necessarily the same), Cloudflare DNS is consulted before the
\* pair is resolved.
C15_BothTransientConsultsCloudflare ==
  (Transient(systemResult) /\ Transient(googleResult)) =>
    (pc = "cloudflare" \/ Ran(cloudflareResult))

\* A combination of DNS failures that no other rule of the cascade takes up:
\* Google failed without not-found, the two failures are not both timeouts
\* nor both server failures, and system DNS did not fail to connect.
Unmatched ==
  /\ Failed(systemResult) /\ Failed(googleResult)
  /\ ClassOf(googleResult) # "NotFound"
  /\ ~(ClassOf(systemResult) = "Timeout" /\ ClassOf(googleResult) = "Timeout")
  /\ ~(ClassOf(systemResult) = "ServerFailure" /\ ClassOf(googleResult) = "ServerFailure")
  /\ ClassOf(systemResult) # "ConnectionError"

C20_AvailableOnlyAfterNoServer ==
  /\ ResolvedAs("Available") =>
       /\ NoServer(httpResult)
       /\ IF Ran(cloudflareResult)
          THEN DnsNotFound(cloudflareResult)
          ELSE DnsNotFound(googleResult)
       /\ ~systemResult.success /\ ~googleResult.success /\ ~cloudflareResult.success
  /\ (Resolved /\ Failed(httpResult) /\ ~NoServer(httpResult)) =>
       LastResult.status = "Error" /\ HasCause(LastResult)

C20_Witness ==
  /\ Resolved /\ Failed(httpResult) /\ httpResult.error = "ETIMEOUT"
  /\ DnsNotFound(googleResult)
  /\ LastResult.status = "Error"
\* ------------------------------------------------------------------
\* C16: within one batch at most one network operation is in flight at
\* any moment: while a pair is being resolved the only outstanding
\* operation is the stage the cascade awaits, it belongs to the pair that
\* follows the resolved ones, and outside a cascade nothing is outstanding.
C16_OneOperationInFlight ==
  /\ Cardinality(inFlight) <= 1
  /\ Pending => /\ inFlight = {pc}
                /\ (di - 1) * T + ti = checksCompleted + 1
                /\ Len(results) = checksCompleted
  /\ ~Pending => inFlight = {}

\* A later pair's cascade is past its first stage, earlier pairs resolved.
C16_Witness ==
  /\ pc \in {"google", "cloudflare", "http1", "http2"}
  /\ checksCompleted >= 1
  /\ inFlight = {pc}

\* ------------------------------------------------------------------
\* C17: per pair the order is resolve, append, progress, suspend: at every
\* suspension the results, the progress events and the suspensions all
\* number checksCompleted, no suspension follows the last pair, and a
\* completed batch of D*T pairs has suspended exactly D*T - 1 times.
C17_OrderAndSuspensionCount ==
  /\ pc # "next"
  /\ pc = "delay" => /\ 1 <= checksCompleted /\ checksCompleted < D * T
                     /\ Len(results) = checksCompleted
                     /\ Len(ProgressValues) = checksCompleted
                     /\ suspensions = checksCompleted
  /\ Pending => /\ suspensions = checksCompleted
                /\ Len(results) = checksCompleted
                /\ Len(ProgressValues) = checksCompleted
  /\ HasComplete => /\ checksCompleted = D * T
                    /\ Len(results) = D * T
                    /\ suspensions = D * T - 1

\* A batch of several pairs completed.
C17_Witness == HasComplete /\ D * T >= 3 /\ suspensions = D * T - 1

\* ------------------------------------------------------------------
\* C19 (as stated): a validated batch that has stopped has resolved all
\* D*T pairs, emitted exactly one terminal event and closed the stream.
C19_BatchRunsToEnd ==
  (pc = "done" /\ response = "stream") =>
      /\ Len(results) = D * T
      /\ TerminalCount = 1
      /\ stream = "closed"
\* ------------------------------------------------------------------
\* Reading the table back: every non-blank cell gives the status of
\* (the row's domain, the column's TLD).
ReadBack(rows) ==
  UNION { { << rows[i][DomainName], c, rows[i][c] >> :
              c \in { c \in DOMAIN rows[i] \ {DomainName} : rows[i][c] # Blank } } :
          i \in 1..Len(rows) }

ExportedDomains == { exportBody.items[k].domain : k \in 1..Len(exportBody.items) }
ExportedTlds == { exportBody.items[k].tld : k \in 1..Len(exportBody.items) }
ExportedPairs ==
  { << exportBody.items[k].domain, exportBody.items[k].tld >> :
      k \in 1..Len(exportBody.items) }

\* C14: an accepted export has one row per domain and one column per TLD,
\* reading it back gives exactly the collection's (domain, tld) -> status
\* map, and a pair absent from the collection is a blank cell, not an error.
C14_ExportRoundTrip ==
  (exportResponse # "none" /\ ~ExportInvalid(exportBody)) =>
     /\ exportResponse = "csv"
     /\ ReadBack(csvData) = getResultsByDomain(exportBody.items)
     /\ { csvData[i][DomainName] : i \in 1..Len(csvData) } = ExportedDomains
     /\ Len(csvData) = Cardinality(ExportedDomains)
     /\ \A i \in 1..Len(csvData) :
          /\ DOMAIN csvData[i] = {DomainName} \cup ExportedTlds
          /\ \A t \in ExportedTlds :
               << csvData[i][DomainName], t >> \notin ExportedPairs
                  => csvData[i][t] = Blank

\* Two domains, two TLDs, one pair given twice and one pair absent.
C14_Witness ==
  /\ exportResponse = "csv"
  /\ Len(csvData) = 2
  /\ Cardinality(ExportedTlds) = 2
  /\ \E i \in 1..Len(csvData) : \E t \in ExportedTlds : csvData[i][t] = Blank
  /\ Cardinality(getResultsByDomain(exportBody.items)) < Len(exportBody.items)
\* ------------------------------------------------------------------
IssuedAt(kind) == { i \in 1..Len(issued) : issued[i] = kind }
WasIssued(kind) == IssuedAt(kind) # {}

\* C21: the cascade issues system DNS first, Google DNS only after system
\* DNS failed, Cloudflare DNS only after Google DNS failed without NotFound,
\* the HTTP probe only right after a NotFound from Google or Cloudflare DNS;
\* each stage at most once, so at most 4 operations per pair.
C21_StageOrder ==
  /\ Len(issued) <= 4
  /\ \A kind \in {"system", "google", "cloudflare", "http"} :
       Cardinality(IssuedAt(kind)) <= 1
  /\ issued # <<>> => issued[1] = "system"
  /\ Pending => issued # <<>> /\ issued[Len(issued)] = StageKind(pc)
  /\ Ran(systemResult) => WasIssued("system")
  /\ Ran(googleResult) => WasIssued("google")
  /\ Ran(cloudflareResult) => WasIssued("cloudflare")
  /\ Ran(httpResult) => WasIssued("http")
  /\ \A i \in 2..Len(issued) :
       /\ issued[i] = "google" =>
            issued[i - 1] = "system" /\ Failed(systemResult)
       /\ issued[i] = "cloudflare" =>
            /\ issued[i - 1] = "google"
            /\ Failed(googleResult) /\ ~DnsNotFound(googleResult)
       /\ issued[i] = "http" =>
            \/ issued[i - 1] = "google" /\ DnsNotFound(googleResult)
            \/ issued[i - 1] = "cloudflare" /\ DnsNotFound(cloudflareResult)

\* A pair was resolved after all four operations.
C21_Witness ==
  /\ Resolved
  /\ issued = << "system", "google", "cloudflare", "http" >>
  /\ Ran(httpResult)
\* ------------------------------------------------------------------
IsTerminal(e) == e.type \in {"complete", "error"}

\* C22: a terminal event is the last event of the stream and the batch has
\* stopped once it is sent, so every progress event precedes it and nothing
\* follows it; the k-th progress event is sent after the k-th result was
\* appended; a complete event comes after exactly D*T progress events and
\* carries the appended results in append order.
C22_StreamOrder ==
  /\ \A k \in 1..Len(events) : IsTerminal(events[k]) => k = Len(events)
  /\ TerminalCount >= 1 => pc = "done" /\ stream = "closed"
  /\ Len(ProgressValues) <= Len(results)
  /\ \A k \in 1..Len(ProgressValues) :
       ProgressValues[k].progress = ProgressValue(k, D * T)
  /\ HasComplete =>
       /\ Len(ProgressValues) = D * T
       /\ Len(results) = D * T
       /\ events[Len(events)].results = results

\* A four-pair batch completed: four progress events, then complete.
C22_Witness ==
  /\ HasComplete
  /\ Len(events) = 5
  /\ \A k \in 1..4 : IsProgress(events[k])
  /\ Len(events[5].results) = 4
====
